---- MODULE Spec2Model ----
(***************************************************************************)
(* The OHTTP gateway of src/ohttp-server/src/main.rs: the key cache,       *)
(* import_config (attestation, KMS round trips, parse_cbor_key), the       *)
(* /score handler (generate_reply, compute_injected_headers, the response  *)
(* header filter) and the /discover handler.                               *)
(*                                                                         *)
(* Every await of the handlers is a step of a task; what runs between two  *)
(* awaits is one action.  A panic (an unwrap on Err/None) ends the task    *)
(* without an HTTP response: pc = "panicked", resp.status = 0.             *)
(***************************************************************************)
EXTENDS Integers, Sequences, FiniteSets, TLC

\* ------------------------------------------------------------------ bounds
\* Key ids used by requests and KMS answers: 0..MaxKid (the code's are u8).
MaxKid == 1
\* Number of request tasks the runtime serves at the same time.
NumTasks == 2
\* Chunks a backend response body is read in, at most.
MaxChunks == 3

\* --------------------------------------------------------- program constants
\* u8::MAX, the range of ExportedKey.kid and of returned_kid.
U8Max == 255
\* max_retries of import_config.
max_retries == 3

Kids == 0..MaxKid
Tasks == 1..NumTasks
\* Keys of the cache: Cache<i32, ..>; import_config is called with -1 or a byte.
CacheKeys == {-1} \cup Kids

\* Option<T> is a sequence of length 0 (None) or 1 (Some).
None == <<>>
Some(x) == <<x>>

RECURSIVE SeqToSet(_)
SeqToSet(s) == IF s = <<>> THEN {} ELSE {Head(s)} \cup SeqToSet(Tail(s))

\* ----------------------------------------------------------- header names
\* HeaderName::try_from / from_bytes: a valid name is normalised to lower
\* case, anything else is an error.  The table lists the names of the model.
LowerTable ==
    [n \in {"x-a", "X-A", "x-b", "x-c", "x-attestation-token",
            "content-type", "Content-Type", "content-length", "Content-Length"} |->
        CASE n = "X-A" -> "x-a"
          [] n = "Content-Type" -> "content-type"
          [] n = "Content-Length" -> "content-length"
          [] OTHER -> n]

HeaderNameTryFrom(s) ==
    IF s \in DOMAIN LowerTable THEN Some(LowerTable[s]) ELSE None

\* str::eq_ignore_ascii_case on names of the table.
EqIgnoreAsciiCase(a, b) ==
    /\ a \in DOMAIN LowerTable
    /\ b \in DOMAIN LowerTable
    /\ LowerTable[a] = LowerTable[b]

\* Header values: HeaderValue::to_str and str::from_utf8 fail on this one.
NonVisible == "\\xff"
ToStrOk(v) == v # NonVisible

\* ------------------------------------------------------------------ cache
\* The moka cache as a function from the keys present to (KeyConfig, token).
CacheGetLatest(c, k) == IF -1 \in DOMAIN c THEN Some(c[-1]) ELSE None
CacheGet(c, k) == IF k \in DOMAIN c THEN Some(c[k]) ELSE None

CacheInsert(c, k, e) ==
    [x \in DOMAIN c \cup {k} |-> IF x = k THEN e ELSE c[x]]

CacheEvict(c, k) == [x \in DOMAIN c \ {k} |-> c[x]]

\* --------------------------------------------------------------- KeyConfig
SuitesImport == <<"HkdfSha384/Aes256Gcm", "HkdfSha256/Aes128Gcm", "HkdfSha256/ChaCha20Poly1305">>
SuitesLocal == <<"HkdfSha256/Aes128Gcm", "HkdfSha256/ChaCha20Poly1305">>

\* Private scalars: 0 is not a valid P-384 scalar, 1 is released by the KMS,
\* 2 is the one KeyConfig::new generates at startup.
ScalarKms == 1
ScalarLocal == 2

KeyConfig(key_id, sk, suites) == [key_id |-> key_id, sk |-> sk, suites |-> suites]

LocalConfig == KeyConfig(0, ScalarLocal, SuitesLocal)

\* ------------------------------------------------------- parse_cbor_key
\* A CBOR value of the exported key: an integer, a byte string or a text.
CborInt(v) == [t |-> "int", v |-> v]
CborBytes(v) == [t |-> "bytes", v |-> v]
CborText == [t |-> "text", v |-> 0]

EmptyMap == [k \in {} |-> CborText]

\* The `key` string of the SKR response: whether hex::decode accepts it and
\* what serde_cbor::from_slice makes of the bytes ("eof": no bytes at all,
\* "invalid": not CBOR, "notmap": a value that is no map, "map": the map m).
KeyString(hexok, cbor, m) == [hexok |-> hexok, cbor |-> cbor, m |-> m]

\* String::new(): hex::decode gives no bytes, serde_cbor::from_slice fails.
EmptyKeyString == KeyString(TRUE, "eof", EmptyMap)

\* Value's Ord, the order a BTreeMap of Value::Integer keys is walked in:
\* major type 0 (k >= 0) before major type 1 (k < 0), then by magnitude.
CborBefore(a, b) ==
    \/ a >= 0 /\ b < 0
    \/ a >= 0 /\ b >= 0 /\ a < b
    \/ a < 0 /\ b < 0 /\ -a < -b

CborFirst(keys) == CHOOSE a \in keys : \A b \in keys \ {a} : CborBefore(a, b)

ParseOk(d, returned_kid) ==
    [res |-> "ok", msg |-> "", d |-> d, returned_kid |-> returned_kid]
ParseErr(msg) == [res |-> "err", msg |-> msg, d |-> None, returned_kid |-> 0]
ParsePanic == [res |-> "panic", msg |-> "u8::try_from", d |-> None, returned_kid |-> 0]

\* u8::try_from(k).is_ok()
IsU8(k) == k \in 0..U8Max

\* The check of key 4 against the requested kid (line 112).
CborKidMismatchDropped(kid, returned_kid) == FALSE
CborKidMismatch(kid, returned_kid) == kid >= 0 /\ returned_kid # kid

\* The loop over the map, keys still to visit, d and returned_kid so far.
RECURSIVE ParseFields(_, _, _, _, _)
ParseFields(m, keys, kid, d, returned_kid) ==
    IF keys = {} THEN ParseOk(d, returned_kid)
    ELSE LET key == CborFirst(keys)
             value == m[key]
             rest == keys \ {key}
         IN  CASE key = 4 ->
                    IF value.t = "int"
                    THEN IF ~IsU8(value.v) THEN ParsePanic
                         ELSE IF CborKidMismatch(kid, value.v)
                              THEN ParseErr("Server returned a different KID from the one requested")
                              ELSE ParseFields(m, rest, kid, d, value.v)
                    ELSE ParseErr("Bad key identifier in SKR response")
               [] key = -4 ->
                    IF value.t = "bytes"
                    THEN ParseFields(m, rest, kid, Some(value.v), returned_kid)
                    ELSE ParseErr("Invalid secret exponent in SKR response")
               [] key = -1 ->
                    IF value = CborInt(2)
                    THEN ParseFields(m, rest, kid, d, returned_kid)
                    ELSE ParseErr("Bad CBOR key type, expected P-384(2)")
               [] key \in {-2, -3} -> ParseFields(m, rest, kid, d, returned_kid)
               [] OTHER -> ParseErr("Unexpected field in exported private key from KMS")

parse_cbor_key(key, kid) ==
    IF ~key.hexok THEN ParseErr("hex::decode")
    ELSE IF key.cbor \in {"eof", "invalid"} THEN ParseErr("serde_cbor::from_slice")
    ELSE IF key.cbor = "map" THEN ParseFields(key.m, DOMAIN key.m, kid, None, 0)
    ELSE ParseErr("Incorrect CBOR encoding in returned private key")

\* The exported keys a KMS answer may carry.
GoodMap(k, d) ==
    (-4 :> CborBytes(d)) @@ (-3 :> CborBytes(8)) @@ (-2 :> CborBytes(7)) @@
    (-1 :> CborInt(2)) @@ (4 :> CborInt(k))

KeyStrings ==
    {KeyString(FALSE, "invalid", EmptyMap),
     KeyString(TRUE, "eof", EmptyMap),
     KeyString(TRUE, "invalid", EmptyMap),
     KeyString(TRUE, "notmap", EmptyMap)}
    \cup {KeyString(TRUE, "map", GoodMap(k, d)) : k \in Kids \cup {U8Max + 1}, d \in {0, ScalarKms}}
    \cup {KeyString(TRUE, "map", m) : m \in
            {(-4 :> CborBytes(ScalarKms)) @@ (-1 :> CborInt(2)),
             (-1 :> CborInt(2)) @@ (4 :> CborInt(0)),
             (-4 :> CborBytes(ScalarKms)) @@ (4 :> CborText),
             (-4 :> CborBytes(ScalarKms)) @@ (-1 :> CborInt(3)) @@ (4 :> CborInt(0)),
             (-4 :> CborText) @@ (4 :> CborInt(0)),
             (-4 :> CborBytes(ScalarKms)) @@ (3 :> CborInt(0)) @@ (4 :> CborInt(U8Max + 1)),
             (-5 :> CborInt(0)) @@ (-4 :> CborBytes(ScalarKms)) @@ (4 :> CborInt(0))}}

\* -------------------------------------------- compute_injected_headers
\* A HeaderMap built by insert/append: its entries <<name, value>> in order.
HeaderNames(hm) == {hm[i][1] : i \in DOMAIN hm}
HeaderCount(hm, n) == Cardinality({i \in DOMAIN hm : hm[i][1] = n})

\* HeaderMap::insert: the value of an existing name is replaced.
HeaderMapInsertAppends(hm, n, v) == Append(hm, <<n, v>>)
HeaderMapInsert(hm, n, v) ==
    IF n \in HeaderNames(hm)
    THEN [i \in DOMAIN hm |-> IF hm[i][1] = n THEN <<n, v>> ELSE hm[i]]
    ELSE Append(hm, <<n, v>>)

\* The outer request's headers: each name present with its values in order;
\* HeaderMap::get gives the first value of a name.
HeaderMapGet(headers, n) ==
    IF n \in DOMAIN headers THEN Some(headers[n][1]) ELSE None

RECURSIVE InjectLoop(_, _, _)
InjectLoop(headers, keys, result) ==
    IF keys = <<>> THEN result
    ELSE LET header_name == HeaderNameTryFrom(Head(keys))
             value == IF header_name = None THEN None
                      ELSE HeaderMapGet(headers, header_name[1])
         IN  IF header_name # None /\ value # None
             THEN InjectLoop(headers, Tail(keys),
                             HeaderMapInsert(result, header_name[1], value[1]))
             ELSE InjectLoop(headers, Tail(keys), result)

compute_injected_headers(headers, keys) == InjectLoop(headers, keys, <<>>)

\* ------------------------------------------------ response header filter
FILTERED_RESPONSE_HEADERS == <<"content-type", "content-length">>

IsFilteredTypeOnly(key) == EqIgnoreAsciiCase(FILTERED_RESPONSE_HEADERS[1], key)
IsFiltered(key) ==
    \E i \in DOMAIN FILTERED_RESPONSE_HEADERS :
        EqIgnoreAsciiCase(FILTERED_RESPONSE_HEADERS[i], key)

\* A header name as the http crate holds it, whatever its case on the wire.
\* (Every wire name of the model is a name of LowerTable.)
Normalised(wire) == [i \in DOMAIN wire |-> <<LowerTable[wire[i][1]], wire[i][2]>>]

KeepUnfiltered(hm) ==
    LET Keep(e) == ~IsFiltered(e[1]) IN SelectSeq(hm, Keep)

TokenHeaderAlways(return_token, token) == <<<<"x-attestation-token", token>>>>
TokenHeader(return_token, token) ==
    IF return_token THEN <<<<"x-attestation-token", token>>>> ELSE <<>>

\* The builder of lines 382-405: Content-Type, the token, the backend's headers.
OuterHeaders(return_token, token, backend_headers) ==
    <<<<"content-type", "message/ohttp-chunked-res">>>>
        \o TokenHeader(return_token, token)
        \o KeepUnfiltered(backend_headers)

\* ------------------------------------------------------------------ inputs
\* Attestation tokens; the local entry's token is String::new().
Tokens == {"tokA", "tokB"}
EmptyToken == ""

\* /score bodies: only the first byte is read before decapsulation.
Bodies == {<<>>} \cup {<<k>> : k \in Kids}

\* Outer header maps of a request (name -> its values in order).
NoHeaders == [n \in {} |-> <<>>]
OuterHeaderMaps ==
    {NoHeaders,
     "x-attestation-token" :> <<"please">>,
     ("x-a" :> <<"v1", "v2">>) @@ ("x-b" :> <<"v1">>),
     "x-b" :> <<NonVisible>>}

\* The values of --inject-request-headers the server may be started with.
InjectLists == {<<>>, <<"x-a", "X-A", "bad name", "x-c", "x-b">>}

\* What decapsulation of the body yields: the bHTTP message the client sealed.
\*   bhttp:  whether Message::read_bhttp accepts the buffer
\*   method: "absent" or the method bytes
\*   fields: the header fields <<name bytes, value bytes>>
\*   path:   "absent" or the path bytes
InnerRequest(bhttp, method, fields, path) ==
    [bhttp |-> bhttp, method |-> method, fields |-> fields, path |-> path]

InnerRequests ==
    {InnerRequest(FALSE, "absent", <<>>, "absent"),
     InnerRequest(TRUE, "absent", <<>>, "/echo"),
     InnerRequest(TRUE, "POST", <<<<"x-a", "inner">>>>, "absent"),
     InnerRequest(TRUE, "B AD", <<>>, "/echo"),
     InnerRequest(TRUE, "POST", <<<<"bad name", "v">>>>, "/echo"),
     InnerRequest(TRUE, "POST", <<<<"x-b", NonVisible>>>>, "/echo"),
     InnerRequest(TRUE, "POST", <<>>, NonVisible)}

\* Method::from_bytes
MethodFromBytes(m) == IF m \in {"GET", "POST"} THEN Some(m) ELSE None

\* The unwraps of lines 278-285: from_utf8, HeaderName::from_bytes and
\* HeaderValue::from_bytes on every field.
FieldsPanic(fields) ==
    \E i \in DOMAIN fields :
        \/ HeaderNameTryFrom(fields[i][1]) = None
        \/ ~ToStrOk(fields[i][2])

\* Backend answers: a send error, or a status with headers as on the wire.
BackendResponse(sent, status, headers) ==
    [sent |-> sent, status |-> status, headers |-> headers]

BackendResponses ==
    {BackendResponse(FALSE, 0, <<>>),
     BackendResponse(TRUE, 200, <<>>),
     BackendResponse(TRUE, 200, <<<<"Content-Type", "text/plain">>, <<"x-b", "1">>,
                                  <<"Content-Length", "2">>, <<"x-b", "2">>>>),
     BackendResponse(TRUE, 200, <<<<"content-length", "2">>, <<"x-attestation-token", "b">>>>),
     BackendResponse(TRUE, 200, <<<<"x-a", NonVisible>>>>),
     BackendResponse(TRUE, 404, <<<<"x-b", "1">>>>),
     BackendResponse(TRUE, 500, <<<<"content-type", "text/html">>>>)}

\* Response::error_for_status
IsErrorStatus(status) == status >= 400 /\ status < 600

\* KMS answers to the SKR request.
\*   sent:   FALSE when send() fails
\*   status: the HTTP status
\*   json:   whether the body parses as ExportedKey
\*   kid, key: the fields of ExportedKey
KmsResponse(sent, status, json, kid, key) ==
    [sent |-> sent, status |-> status, json |-> json, kid |-> kid, key |-> key]

KmsResponses ==
    {KmsResponse(FALSE, 0, FALSE, 0, EmptyKeyString),
     KmsResponse(TRUE, 202, FALSE, 0, EmptyKeyString),
     KmsResponse(TRUE, 403, FALSE, 0, EmptyKeyString),
     KmsResponse(TRUE, 500, TRUE, 0, KeyString(TRUE, "map", GoodMap(0, ScalarKms))),
     KmsResponse(TRUE, 200, FALSE, 0, EmptyKeyString)}
    \cup {KmsResponse(TRUE, 200, TRUE, k, key) : k \in Kids, key \in KeyStrings}

\* The body chunks of a backend response, and what one response.chunk()
\* gives: Ok(Some(chunk)), Ok(None) at the end of the body, or Err.
Chunks == {"c1", "c2"}

ChunkOk(c) == [kind |-> "chunk", chunk |-> c]
ChunkEnd == [kind |-> "end", chunk |-> ""]
ChunkErr == [kind |-> "err", chunk |-> ""]

\* attest(): no token, bytes that are no UTF-8, or a token.
AttestResults ==
    {[ok |-> FALSE, utf8 |-> FALSE, token |-> EmptyToken],
     [ok |-> TRUE, utf8 |-> FALSE, token |-> EmptyToken]}
    \cup {[ok |-> TRUE, utf8 |-> TRUE, token |-> tk] : tk \in Tokens}

\* ------------------------------------------------------------------- state
VARIABLES
    local_key,               \* Args.local_key
    inject_request_headers,  \* Args.inject_request_headers
    cache,                   \* the static cache: key -> [config, token]
    req                      \* req[t]: the request task t is serving

vars == <<local_key, inject_request_headers, cache, req>>

CacheEntry(config, token) == [config |-> config, token |-> token]

NoResponse == [status |-> 0, body |-> <<>>, headers |-> <<>>]

\* The OHTTP session of a request (the ServerResponse decapsulation yields):
\* where it is in its life, and its counter of encapsulated chunks.
Session(st, i) == [st |-> st, i |-> i]
FreshSession == Session("Fresh", 0)

\* (kms_status and url: the status of the last KMS answer and the URL of the
\* last SKR request of the request being served.)
\* A task between two requests.  The n.. fields count, for the request being
\* served, the cache reads, attest() calls, KMS POSTs, backend requests,
\* cache inserts and reads of the backend's body made so far.
\*   session: the OHTTP session;  read: the chunks read from the backend;
\*   polled: the result of response.chunk() not yet taken by the stream
\*           (of a stream that is over: the result that ended it);
\*   hand: the chunk read and not yet encapsulated.
IdleReq ==
    [pc |-> "idle", route |-> "none", body |-> <<>>, hdrs |-> NoHeaders,
     kid |-> 0, return_token |-> FALSE, retries |-> 0, token |-> EmptyToken,
     kms_status |-> 0, url |-> None,
     imp |-> None, err |-> "", ohttp |-> None, sent |-> None,
     backend |-> None, resp |-> NoResponse,
     session |-> FreshSession, hand |-> None, polled |-> None, read |-> <<>>,
     nGet |-> 0, nAttest |-> 0, nKms |-> 0, nBackend |-> 0, nInsert |-> 0,
     nRead |-> 0]

Respond(r, status, body, headers) ==
    [r EXCEPT !.pc = "done",
              !.resp = [status |-> status, body |-> body, headers |-> headers]]

Panicked(r) == [r EXCEPT !.pc = "panicked"]

\* import_config returns: Ok((config, token)) or Err(msg).
\* (retries and token are locals of import_config: gone when it returns.)
ImportOkReportsErr(r, entry) ==
    [r EXCEPT !.pc = "imported", !.imp = None, !.err = "late",
              !.retries = 0, !.token = EmptyToken]
ImportOk(r, entry) ==
    [r EXCEPT !.pc = "imported", !.imp = Some(entry), !.err = "",
              !.retries = 0, !.token = EmptyToken]
ImportErr(r, msg) ==
    [r EXCEPT !.pc = "imported", !.imp = None, !.err = msg,
              !.retries = 0, !.token = EmptyToken]

\* main, lines 480-491: in local-key mode kid 0 is inserted at startup.
Init ==
    /\ local_key \in BOOLEAN
    /\ inject_request_headers \in InjectLists
    /\ cache = IF local_key
               THEN CacheInsert(<<>>, 0, CacheEntry(LocalConfig, EmptyToken))
               ELSE <<>>
    /\ req = [t \in Tasks |-> IdleReq]

\* ------------------------------------------------------------------ score
\* Lines 352-355: the KID is the first byte of the body, -1 if there is none.
KidOfBody(body) == IF Len(body) = 0 THEN -1 ELSE body[1]

\* Line 345: value.to_str().unwrap() on every outer header value.
OuterHeadersPanic(headers) ==
    \E n \in DOMAIN headers : \E i \in DOMAIN headers[n] : ~ToStrOk(headers[n][i])

\* Lines 346-348.
ReturnToken(headers) == "x-attestation-token" \in DOMAIN headers

\* Line 357: no configuration for a non-0 KID with local keying.
IgnoredKid(local, kid) == local /\ kid # 0

ConfigErrorBody ==
    <<"Failed to get or load the OHTTP coniguration from local cache or key management service.">>

\* score, lines 329-360: up to the call of import_config.
ScoreStartIn(t, bodies, header_maps) ==
    /\ req[t].pc = "idle"
    /\ \E body \in bodies, headers \in header_maps :
        LET r0 == [IdleReq EXCEPT !.route = "score", !.body = body, !.hdrs = headers]
            r1 == [r0 EXCEPT !.return_token = ReturnToken(headers),
                             !.kid = KidOfBody(body)]
        IN  req' = [req EXCEPT ![t] =
                IF OuterHeadersPanic(headers) THEN Panicked(r0)
                ELSE IF IgnoredKid(local_key, r1.kid)
                     THEN Respond(r1, 500, ConfigErrorBody, <<>>)
                     ELSE [r1 EXCEPT !.pc = "import_get"]]
    /\ UNCHANGED <<local_key, inject_request_headers, cache>>

ScoreStart(t) == ScoreStartIn(t, Bodies, OuterHeaderMaps)

\* --------------------------------------------------------- import_config
\* Lines 152-155: the cache is read under the requested kid.
ImportGet(t) ==
    /\ req[t].pc = "import_get"
    /\ LET r == [req[t] EXCEPT !.nGet = @ + 1]
           hit == CacheGet(cache, r.kid)
       IN  req' = [req EXCEPT ![t] =
                IF hit # None THEN ImportOk(r, hit[1])
                ELSE [r EXCEPT !.pc = "attest"]]
    /\ UNCHANGED <<local_key, inject_request_headers, cache>>

\* Lines 158-170: the MAA token; String::from_utf8(token).unwrap().
AttestIn(t, results) ==
    /\ req[t].pc = "attest"
    /\ \E a \in results :
        LET r == [req[t] EXCEPT !.nAttest = @ + 1]
        IN  req' = [req EXCEPT ![t] =
                IF ~a.ok THEN ImportErr(r, "attest")
                ELSE IF ~a.utf8 THEN Panicked(r)
                ELSE [r EXCEPT !.pc = "kms", !.token = a.token, !.retries = 0]]
    /\ UNCHANGED <<local_key, inject_request_headers, cache>>

Attest(t) == AttestIn(t, AttestResults)

\* Line 193: a 202 is retried while retries < max_retries.
RetryAllowedAlways(retries) == TRUE
RetryAllowed(retries) == retries < max_retries

\* Line 217: the kid of the JSON answer against the requested kid.
JsonKidMismatch(kid, skr_kid) == kid >= 0 /\ skr_kid # kid

\* PrivateKey::from_bytes: the scalar must be a valid one.
ScalarOk(d) == d # 0

\* The match of lines 191-229 on the status of the KMS answer:
\* "retry" (202), "key" (200) or "other".
StatusClassOtherIsKey(status) ==
    CASE status = 202 -> "retry" [] OTHER -> "key"
StatusClass(status) ==
    CASE status = 202 -> "retry" [] status = 200 -> "key" [] OTHER -> "other"

\* The cache key of line 252: the kid import_config was called with.
InsertKey(kid, returned_kid) == kid

\* Lines 232-253 on the key string: what import_config ends with.
\*   res: "ok" | "err" | "panic"; entry: the pair inserted and returned.
ImportResult(res, msg, config, token) ==
    [res |-> res, msg |-> msg, entry |-> CacheEntry(config, token)]

ImportKey(key, kid, token) ==
    LET p == parse_cbor_key(key, kid)
        bad == KeyConfig(0, 0, <<>>)
    IN  CASE p.res = "panic" -> ImportResult("panic", p.msg, bad, token)
          [] p.res = "err" -> ImportResult("err", p.msg, bad, token)
          [] p.d = None ->
                ImportResult("err", "Private key missing from SKR response", bad, token)
          [] ~ScalarOk(p.d[1]) -> ImportResult("err", "PrivateKey::from_bytes", bad, token)
          [] OTHER ->
                ImportResult("ok", "",
                             KeyConfig(p.returned_kid, p.d[1], SuitesImport), token)

\* Lines 175-179: the URL of the SKR request, with the kid unless it is < 0.
KmsUrl(kid) == IF kid >= 0 THEN <<"kms_url", "?kid=", kid>> ELSE <<"kms_url">>

\* One pass of the loop of lines 173-230 on the KMS answer k, and on
\* leaving the loop lines 232-253: the task's record after it, and the
\* pair to insert into the cache (None when nothing is inserted).
KmsOutcome(r, insert) == [r |-> r, insert |-> insert]

KmsStep(r0, k) ==
    LET r == [r0 EXCEPT !.nKms = @ + 1, !.kms_status = k.status,
                        !.url = Some(KmsUrl(r0.kid))]
        class == StatusClass(k.status)
        key == IF class = "key" THEN k.key ELSE EmptyKeyString
        out == ImportKey(key, r.kid, r.token)
    IN  IF ~k.sent THEN KmsOutcome(ImportErr(r, "send"), None)
        ELSE IF class = "retry"
        THEN IF RetryAllowed(r.retries)
             THEN KmsOutcome([r EXCEPT !.retries = @ + 1], None)
             ELSE KmsOutcome(ImportErr(r, "Max retries reached, giving up. Cannot reach key management service"), None)
        ELSE IF class = "key" /\ ~k.json
        THEN KmsOutcome(ImportErr(r, "serde_json::from_str"), None)
        ELSE IF class = "key" /\ JsonKidMismatch(r.kid, k.kid)
        THEN KmsOutcome(ImportErr(r, "KMS returned a different key ID from the one requested"), None)
        ELSE IF out.res = "panic" THEN KmsOutcome(Panicked(r), None)
        ELSE IF out.res = "err" THEN KmsOutcome(ImportErr(r, out.msg), None)
        ELSE KmsOutcome(ImportOk([r EXCEPT !.nInsert = @ + 1], out.entry), Some(out.entry))

KmsRoundIn(t, responses) ==
    /\ req[t].pc = "kms"
    /\ \E k \in responses :
        LET o == KmsStep(req[t], k)
        IN  /\ req' = [req EXCEPT ![t] = o.r]
            /\ cache' = IF o.insert = None THEN cache
                        ELSE CacheInsert(cache,
                                InsertKey(req[t].kid, o.insert[1].config.key_id),
                                o.insert[1])
    /\ UNCHANGED <<local_key, inject_request_headers>>

KmsRound(t) == KmsRoundIn(t, KmsResponses)

\* The TTL of line 94: an entry is gone 24 h after its insert.
Expire(k) ==
    /\ k \in DOMAIN cache
    /\ cache' = CacheEvict(cache, k)
    /\ UNCHANGED <<local_key, inject_request_headers, req>>

\* --------------------------------------------------------- score, continued
\* Lines 360-374: import_config has returned; OhttpServer::new(config).
ScoreConfig(t) ==
    /\ req[t].pc = "imported"
    /\ req[t].route = "score"
    /\ \E server_ok \in BOOLEAN :
        LET r == req[t]
        IN  req' = [req EXCEPT ![t] =
                IF r.imp # None /\ server_ok
                THEN [r EXCEPT !.pc = "reply", !.ohttp = r.imp]
                ELSE Respond(r, 500, ConfigErrorBody, <<>>)]
    /\ UNCHANGED <<local_key, inject_request_headers, cache>>

\* Server::decapsulate can succeed only on a body that carries, after its
\* key id byte, a message sealed to the configuration's key.
CanDecapsulate(config, body) == Len(body) > 0 /\ body[1] = config.key_id

\* Lines 420-429: the status of a failed generate_reply, by the error's type.
ErrorStatus(kind) == IF kind = "ohttp::Error" THEN 422 ELSE 400
ErrorBody(kind) == IF kind = "ohttp::Error" THEN <<"Error: ", kind>> ELSE <<"Request error">>

ReplyErrorTriesAgain(r, kind) == [r EXCEPT !.pc = "reply"]
ReplyError(r, kind) == Respond(r, ErrorStatus(kind), ErrorBody(kind), <<>>)

\* Lines 297-302: the path of the target is replaced by a UTF-8 inner path.
TargetPath(path) == IF path # "absent" /\ ToStrOk(path) THEN path ELSE "/"

\* Lines 377-378 and generate_reply up to send(): the injected headers, the
\* decapsulation, the bHTTP decoding and the request to the backend.
GenerateReplyIn(t, inners) ==
    /\ req[t].pc = "reply"
    /\ \E decapsulated \in BOOLEAN, inner \in inners :
        LET r0 == req[t]
            \* line 263: decapsulation yields the request and the session
            r == [r0 EXCEPT !.session = Session("Decapsulated", 0)]
            inject_headers == compute_injected_headers(r.hdrs, inject_request_headers)
            method == IF inner.method = "absent" THEN Some("GET")
                      ELSE MethodFromBytes(inner.method)
            headers == inner.fields \o inject_headers
        IN  /\ decapsulated => CanDecapsulate(r.ohttp[1].config, r.body)
            /\ req' = [req EXCEPT ![t] =
                 IF ~decapsulated THEN ReplyError(r0, "ohttp::Error")
                 ELSE IF ~inner.bhttp THEN ReplyError(r, "bhttp::Error")
                 ELSE IF method = None THEN ReplyError(r, "InvalidMethod")
                 ELSE IF FieldsPanic(inner.fields) THEN Panicked(r)
                 ELSE IF \E i \in DOMAIN inject_headers : ~ToStrOk(inject_headers[i][2])
                      THEN Panicked(r)
                 ELSE [r EXCEPT !.pc = "backend", !.nBackend = @ + 1,
                                !.sent = Some([method |-> method[1],
                                               path |-> TargetPath(inner.path),
                                               path_bytes |-> inner.path,
                                               inner |-> inner.fields,
                                               headers |-> headers])]]
    /\ UNCHANGED <<local_key, inject_request_headers, cache>>

GenerateReply(t) == GenerateReplyIn(t, InnerRequests)

\* Line 401: from_utf8(value).unwrap() on every header that is kept.
BackendHeadersPanic(hm) ==
    \E i \in DOMAIN hm : ~IsFiltered(hm[i][1]) /\ ~ToStrOk(hm[i][2])

\* ServerResponse::encapsulate_chunk: the chunk sealed under the session's
\* counter, the last one marked as final; the stream opens with the nonce.
ResponseNonce == [kind |-> "nonce", i |-> 0, chunk |-> "", last |-> FALSE]
EncapsulateChunk(i, chunk, last) ==
    [kind |-> "sealed", i |-> i, chunk |-> chunk, last |-> last]

\* Lines 382-417: the 200 response is handed over with its headers; its body
\* is the stream that is read from the backend afterwards.
StartStreamNoBody(r, headers) == Respond(r, 200, <<ResponseNonce>>, headers)
StartStream(r, headers) ==
    [r EXCEPT !.pc = "stream",
              !.resp = [status |-> 200, body |-> <<ResponseNonce>>, headers |-> headers]]

\* Lines 305-311 and 380-430: the backend's answer and the outer response.
BackendReplyIn(t, responses) ==
    /\ req[t].pc = "backend"
    /\ \E b \in responses :
        LET r == [req[t] EXCEPT !.backend = Some(b)]
            hm == Normalised(b.headers)
        IN  req' = [req EXCEPT ![t] =
                IF ~b.sent \/ IsErrorStatus(b.status) THEN ReplyError(r, "reqwest::Error")
                ELSE IF BackendHeadersPanic(hm) THEN Panicked(r)
                ELSE StartStream(r, OuterHeaders(r.return_token, r.ohttp[1].token, hm))]
    /\ UNCHANGED <<local_key, inject_request_headers, cache>>

BackendReply(t) == BackendReplyIn(t, BackendResponses)

\* ----------------------------------------------------- the response stream
\* Lines 407-414, the closure of unfold: Ok(Some(chunk)) is the next item of
\* the stream, anything else (the end of the body, an error) ends it.
StreamItemErrIsChunk(result) ==
    IF result.kind = "end" THEN None ELSE Some(result.chunk)
StreamItemSkipsFirst(result) ==
    IF result.kind = "chunk" /\ result.chunk # "c1" THEN Some(result.chunk) ELSE None
StreamItem(result) ==
    IF result.kind = "chunk" THEN Some(result.chunk) ELSE None

\* Line 408: response.chunk().await, one read of the backend's body.
ChunkReadIn(t, results, max) ==
    /\ req[t].pc = "stream"
    /\ req[t].polled = None
    /\ \E result \in results :
        /\ result.kind = "chunk" => Len(req[t].read) < max
        /\ req' = [req EXCEPT ![t] =
                [@ EXCEPT !.polled = Some(result), !.nRead = @ + 1,
                          !.read = IF result.kind = "chunk"
                                   THEN Append(@, result.chunk) ELSE @]]
    /\ UNCHANGED <<local_key, inject_request_headers, cache>>

\* In Spec the backend's body ends at the first read; SpecStream below reads
\* bodies of up to MaxChunks chunks, also broken ones.
EndOfBody == {ChunkEnd}
ChunkRead(t) == ChunkReadIn(t, EndOfBody, 0)

\* Line 416, encapsulate_stream, on the next item of the stream: the chunk
\* in hand is encapsulated once it is known whether it is the last one.
\*   item   hand
\*   chunk  none   the first chunk: the session starts streaming
\*   chunk  p      p is encapsulated with last_flag = false
\*   none   p      p is encapsulated with last_flag = true, session closed
\*   none   none   the stream is empty: the session is closed
EncapsulateStream(r) ==
    LET item == StreamItem(r.polled[1])
        i == r.session.i
        r1 == [r EXCEPT !.polled = None]
    IN  IF item # None /\ r.hand = None
        THEN [r1 EXCEPT !.hand = item, !.session = Session("Streaming", 0)]
        ELSE IF item # None
        THEN [r1 EXCEPT !.hand = item, !.session = Session("Streaming", i + 1),
                        !.resp.body = Append(@, EncapsulateChunk(i, r.hand[1], FALSE))]
        ELSE IF r.hand # None
        THEN [r EXCEPT !.hand = None, !.session = Session("Closed", i + 1),
                       !.pc = "done",
                       !.resp.body = Append(@, EncapsulateChunk(i, r.hand[1], TRUE))]
        ELSE [r EXCEPT !.session = Session("Closed", i), !.pc = "done"]

Encapsulate(t) ==
    /\ req[t].pc = "stream"
    /\ req[t].polled # None
    /\ req' = [req EXCEPT ![t] = EncapsulateStream(req[t])]
    /\ UNCHANGED <<local_key, inject_request_headers, cache>>

\* --------------------------------------------------------------- discover
RECURSIVE EncodeList(_)
RECURSIVE HexEncode(_)
\* KeyConfig::encode_list: each configuration after its length; a
\* configuration is its key id, its public key and its suites.
PublicKey(sk) == <<(sk * 16 + 4) % 256>>
EncodeConfig(config) ==
    <<config.key_id>> \o PublicKey(config.sk) \o <<Len(config.suites)>>
EncodeList(configs) ==
    IF configs = <<>> THEN <<>>
    ELSE LET e == EncodeConfig(Head(configs))
         IN  <<Len(e)>> \o e \o EncodeList(Tail(configs))

\* hex::encode: two lower-case digits per byte.
HexDigit(n) == SubSeq(<<"0", "1", "2", "3", "4", "5", "6", "7", "8", "9",
                        "a", "b", "c", "d", "e", "f">>, n + 1, n + 1)
HexEncode(bytes) ==
    IF bytes = <<>> THEN <<>>
    ELSE HexDigit(Head(bytes) \div 16) \o HexDigit(Head(bytes) % 16)
            \o HexEncode(Tail(bytes))

\* discover, lines 436-447: 404 unless local keying, else import_config(0).
DiscoverStart(t) ==
    /\ req[t].pc = "idle"
    /\ LET r == [IdleReq EXCEPT !.route = "discover"]
       IN  req' = [req EXCEPT ![t] =
                IF ~local_key THEN Respond(r, 404, <<"Not found">>, <<>>)
                ELSE [r EXCEPT !.pc = "import_get", !.kid = 0]]
    /\ UNCHANGED <<local_key, inject_request_headers, cache>>

\* discover, lines 447-466: the answer from import_config's result.
DiscoverReply(t) ==
    /\ req[t].pc = "imported"
    /\ req[t].route = "discover"
    /\ LET r == req[t]
       IN  req' = [req EXCEPT ![t] =
                IF r.imp = None
                THEN Respond(r, 500,
                        <<"KID 0 missing from cache (should be impossible with local keying)">>, <<>>)
                ELSE Respond(r, 200, HexEncode(EncodeList(<<r.imp[1].config>>)), <<>>)]
    /\ UNCHANGED <<local_key, inject_request_headers, cache>>

\* The response has been handed to the server (or the task has died): the
\* task takes the next request.
Finish(t) ==
    /\ req[t].pc \in {"done", "panicked"}
    /\ req' = [req EXCEPT ![t] = IdleReq]
    /\ UNCHANGED <<local_key, inject_request_headers, cache>>

\* ---------------------------------------------------------- specification
Step(t) ==
    \/ ScoreStart(t)
    \/ DiscoverStart(t)
    \/ ImportGet(t)
    \/ Attest(t)
    \/ KmsRound(t)
    \/ ScoreConfig(t)
    \/ GenerateReply(t)
    \/ BackendReply(t)
    \/ ChunkRead(t)
    \/ Encapsulate(t)
    \/ DiscoverReply(t)
    \/ Finish(t)

\* Requests served one after the other, and the cache's entries expiring.
Next ==
    \/ Step(1)
    \/ \E k \in CacheKeys : Expire(k)

Spec == Init /\ [][Next]_vars

\* The header injection on its own: a local-key server started with any
\* allowlist of up to MaxInject names, serving requests for kid 0 with any
\* outer headers over two names; the other inputs are the plain ones.
MaxInject == 3

InjectNames == {"x-a", "X-A", "x-b", "x-c", "bad name"}
WideInjectLists == UNION {[1..n -> InjectNames] : n \in 0..MaxInject}
WideHeaderMaps ==
    UNION {[S -> {<<"v1">>, <<"v2">>, <<"v1", "v2">>}] : S \in SUBSET {"x-a", "x-b"}}

\* The plain inputs: a body for kid 0, a well-formed inner request, a
\* backend 200 without headers, a request that asks for the token or not,
\* an attestation that succeeds.
KidZeroBodies == {<<0>>}
PlainInnerRequests == {InnerRequest(TRUE, "absent", <<>>, "/echo")}
InjectInnerRequests ==
    {InnerRequest(TRUE, "absent", <<>>, "/echo"),
     InnerRequest(TRUE, "POST", <<<<"x-a", "inner">>>>, "absent")}
PlainBackendResponses == {BackendResponse(TRUE, 200, <<>>)}
TokenHeaderMaps == {NoHeaders, "x-attestation-token" :> <<"please">>}
GoodAttestResults == {[ok |-> TRUE, utf8 |-> TRUE, token |-> tk] : tk \in Tokens}

InitInject ==
    /\ local_key = TRUE
    /\ inject_request_headers \in WideInjectLists
    /\ cache = CacheInsert(<<>>, 0, CacheEntry(LocalConfig, EmptyToken))
    /\ req = [t \in Tasks |-> IdleReq]

NextInject ==
    \/ ScoreStartIn(1, KidZeroBodies, WideHeaderMaps)
    \/ ImportGet(1)
    \/ ScoreConfig(1)
    \/ GenerateReplyIn(1, InjectInnerRequests)
    \/ BackendReplyIn(1, PlainBackendResponses)
    \/ ChunkRead(1)
    \/ Encapsulate(1)
    \/ Finish(1)

SpecInject == InitInject /\ [][NextInject]_vars

\* The response stream on its own: a local-key server serving requests for
\* kid 0 whose backend answers 200 with a body of up to MaxChunks chunks,
\* which ends or breaks at any read.  The runtime keeps polling the stream
\* of a response it is sending, so a read result is always taken up.
StreamResults == {ChunkOk(c) : c \in Chunks} \cup {ChunkEnd, ChunkErr}

StreamInnerRequests ==
    {InnerRequest(TRUE, "absent", <<>>, "/echo"),
     InnerRequest(FALSE, "absent", <<>>, "absent")}
StreamBackendResponses ==
    {BackendResponse(TRUE, 200, <<>>), BackendResponse(TRUE, 500, <<>>)}

InitStream ==
    /\ local_key = TRUE
    /\ inject_request_headers = <<>>
    /\ cache = CacheInsert(<<>>, 0, CacheEntry(LocalConfig, EmptyToken))
    /\ req = [t \in Tasks |-> IdleReq]

NextStream ==
    \/ ScoreStartIn(1, KidZeroBodies, TokenHeaderMaps)
    \/ ImportGet(1)
    \/ ScoreConfig(1)
    \/ GenerateReplyIn(1, StreamInnerRequests)
    \/ BackendReplyIn(1, StreamBackendResponses)
    \/ ChunkReadIn(1, StreamResults, MaxChunks)
    \/ Encapsulate(1)
    \/ Finish(1)

SpecStream == InitStream /\ [][NextStream]_vars /\ WF_vars(Encapsulate(1))

\* Concurrent requests: every task of the runtime serves one /score request
\* for kid 0 of a remote-KMS server up to the head of its response, the
\* tasks interleaved at their awaits, while the entry of kid 0 may expire.
RaceBackendResponses ==
    {BackendResponse(TRUE, 200, <<>>),
     BackendResponse(TRUE, 200, <<<<"content-length", "2">>, <<"x-attestation-token", "b">>>>)}

RaceKmsResponses ==
    {KmsResponse(TRUE, 200, TRUE, 0, KeyString(TRUE, "map", GoodMap(0, ScalarKms)))}

InitRace ==
    /\ local_key = FALSE
    /\ inject_request_headers = <<>>
    /\ cache = <<>>
    /\ req = [t \in Tasks |-> IdleReq]

NextRace ==
    \/ \E t \in Tasks :
        \/ ScoreStartIn(t, KidZeroBodies, TokenHeaderMaps)
        \/ ImportGet(t)
        \/ AttestIn(t, GoodAttestResults)
        \/ KmsRoundIn(t, RaceKmsResponses)
        \/ ScoreConfig(t)
        \/ GenerateReplyIn(t, PlainInnerRequests)
        \/ BackendReplyIn(t, RaceBackendResponses)
    \/ Expire(0)

SpecRace == InitRace /\ [][NextRace]_vars

\* =================================================================== claims
\* The request task 1 is serving.
R == req[1]

ContentTypePair == <<"content-type", "message/ohttp-chunked-res">>

\* ----------------------------------------------------------------------- C1
\* C1: every POST /score request ends with exactly one of four statuses,
\* chosen by the first step that fails: 500 when no key configuration was
\* resolved, 422 when decapsulation fails, 400 with body "Request error" for
\* any other error of generate_reply, 200 with Content-Type
\* message/ohttp-chunked-res otherwise.
ScoreStatusByFirstFailure(r) ==
    /\ r.resp.status \in {500, 422, 400, 200}
    /\ r.resp.status = 500 <=> r.ohttp = None
    /\ r.resp.status = 422 => r.sent = None /\ r.resp.body = <<"Error: ", "ohttp::Error">>
    /\ r.resp.status = 400 => r.resp.body = <<"Request error">>
    /\ r.backend # None /\ (~r.backend[1].sent \/ IsErrorStatus(r.backend[1].status))
            => r.resp.status = 400
    /\ r.resp.status = 200 =>
            /\ r.backend # None /\ r.backend[1].sent /\ ~IsErrorStatus(r.backend[1].status)
            /\ \E i \in DOMAIN r.resp.headers : r.resp.headers[i] = ContentTypePair

C1_EveryScoreEndsWithOneStatus ==
    R.route = "score" /\ R.pc \in {"done", "panicked"} => ScoreStatusByFirstFailure(R)

\* What the code does keep of C1: a request that is answered at all is
\* answered as C1 says; the requests C1 fails on are the panicking ones.
ScoreStatusWhenAnswered ==
    R.route = "score" /\ R.pc = "done" => ScoreStatusByFirstFailure(R)

\* ----------------------------------------------------------------------- C2
\* C2: for every kid in 0..255, when the cache holds an unexpired entry under
\* kid, import_config(kid) returns exactly that (KeyConfig, token) pair and
\* performs no attestation call and no KMS request.
C2_PrimedCacheReturnsEntry ==
    [][(/\ R.pc = "import_get"
        /\ R.kid \in Kids
        /\ R.kid \in DOMAIN cache
        /\ R' # R)
       => /\ R'.pc = "imported"
          /\ R'.imp = Some(cache[R.kid])
          /\ R'.nAttest = 0
          /\ R'.nKms = 0
          /\ cache' = cache]_vars

\* A remote-mode request served from an entry the KMS released earlier.
C2_Witness ==
    /\ ~local_key
    /\ R.pc = "imported"
    /\ R.kid \in Kids
    /\ R.nGet = 1 /\ R.nAttest = 0 /\ R.nKms = 0
    /\ R.imp # None
    /\ R.imp[1].token \in Tokens

\* ----------------------------------------------------------------------- C3
\* C3: for every requested kid k >= 0 and every KMS 200 answer whose key id
\* k' differs from k (in the JSON kid field or in CBOR field 4),
\* import_config fails, and the /score request that triggered it is answered
\* with HTTP 500.
KidMismatchErrors ==
    {"KMS returned a different key ID from the one requested",
     "Server returned a different KID from the one requested"}

\* The key id CBOR field 4 carries, when the key decodes to a map with an
\* integer key id in it.
CborKid(key) ==
    IF key.hexok /\ key.cbor = "map" /\ 4 \in DOMAIN key.m
       /\ key.m[4].t = "int" /\ IsU8(key.m[4].v)
    THEN Some(key.m[4].v) ELSE None

AnswersOtherKid(k, kid) ==
    /\ k.sent /\ k.status = 200 /\ k.json
    /\ \/ k.kid # kid
       \/ CborKid(k.key) # None /\ CborKid(k.key) # Some(kid)

C3_KidMismatchFails ==
    /\ R.pc = "kms" /\ R.kid >= 0 =>
            \A k \in KmsResponses :
                AnswersOtherKid(k, R.kid) =>
                    LET o == KmsStep(R, k)
                    IN  /\ o.r.pc = "imported"
                        /\ o.r.imp = None
                        /\ o.insert = None
    /\ R.route = "score" /\ R.pc = "done" /\ R.err \in KidMismatchErrors =>
            /\ R.resp.status = 500
            /\ R.imp = None
            /\ R.nBackend = 0

\* A /score answered 500 after the key of the answer carried another key id.
C3_Witness ==
    /\ R.route = "score" /\ R.pc = "done"
    /\ R.err = "Server returned a different KID from the one requested"
    /\ R.resp.status = 500

\* ----------------------------------------------------------------------- C4
\* C4: within one import_config call a KMS 202 is retried up to 3 times: the
\* call sends at most the initial request plus 3 retries, succeeds when a 200
\* arrives among those answers (in particular after two 202s), and fails once
\* the budget of 3 is used up and the KMS still answers 202; the loop always
\* terminates (every pass sends one request, and at most 4 are sent).
GoodAnswer(kid) ==
    KmsResponse(TRUE, 200, TRUE, IF kid >= 0 THEN kid ELSE 0,
                KeyString(TRUE, "map", GoodMap(IF kid >= 0 THEN kid ELSE 0, ScalarKms)))

Answer202 == KmsResponse(TRUE, 202, FALSE, 0, EmptyKeyString)

C4_RetryBudget ==
    /\ R.nKms <= 1 + 3
    /\ R.pc = "kms" =>
        /\ R.nKms = R.retries
        /\ R.retries <= 3
        /\ KmsStep(R, GoodAnswer(R.kid)).r.pc = "imported"
        /\ KmsStep(R, GoodAnswer(R.kid)).r.imp # None
        /\ R.retries < 3 =>
                /\ KmsStep(R, Answer202).r.pc = "kms"
                /\ KmsStep(R, Answer202).r.retries = R.retries + 1
        /\ R.retries = 3 =>
                /\ KmsStep(R, Answer202).r.pc = "imported"
                /\ KmsStep(R, Answer202).r.imp = None
    /\ R.err = "Max retries reached, giving up. Cannot reach key management service" =>
        /\ R.nKms = 1 + 3
        /\ R.imp = None

\* import_config succeeded on its third request, after two 202s.
C4_Witness ==
    /\ R.pc = "imported"
    /\ R.imp # None
    /\ R.nKms = 3
    /\ R.kms_status = 200

\* ----------------------------------------------------------------------- C5
\* C5: when the KMS answers with a status other than 200 or 202,
\* import_config fails without a further KMS request and the /score request
\* is answered with HTTP 500.
C5_OtherStatusFails ==
    /\ R.pc = "kms" =>
            \A k \in KmsResponses :
                k.sent /\ k.status \notin {200, 202} =>
                    LET o == KmsStep(R, k)
                    IN  /\ o.r.pc = "imported"
                        /\ o.r.imp = None
                        /\ o.r.nKms = R.nKms + 1
                        /\ o.insert = None
    /\ R.pc \notin {"idle", "kms"} /\ R.kms_status \notin {0, 200, 202} =>
            /\ R.imp = None
            /\ R.nInsert = 0
            /\ R.route = "score" /\ R.pc = "done" =>
                    R.resp.status = 500 /\ R.nBackend = 0

\* A /score answered 500 after the KMS answered 403 to its second request.
C5_Witness ==
    /\ R.route = "score" /\ R.pc = "done"
    /\ R.kms_status = 403
    /\ R.nKms = 2
    /\ R.resp.status = 500

\* ----------------------------------------------------------------------- C6
\* C6: in local-key mode, a /score request whose kid is not 0 (a first byte
\* 1..255, or an empty body) is answered with HTTP 500 without reading the
\* cache, calling the attestor, contacting the KMS or contacting the backend.
NoOutboundCalls(r) ==
    r.nGet = 0 /\ r.nAttest = 0 /\ r.nKms = 0 /\ r.nBackend = 0

C6_LocalOtherKidIs500 ==
    (/\ local_key
     /\ R.route = "score"
     /\ R.pc \in {"done", "panicked"}
     /\ (Len(R.body) = 0 \/ R.body[1] # 0))
    => R.resp.status = 500 /\ NoOutboundCalls(R)

\* What the code does keep of C6: such a request makes no call at all, and
\* when it is answered the answer is 500.
LocalOtherKidWhenAnswered ==
    (/\ local_key
     /\ R.route = "score"
     /\ R.pc # "idle"
     /\ (Len(R.body) = 0 \/ R.body[1] # 0))
    => /\ NoOutboundCalls(R)
       /\ R.pc \in {"done", "panicked"}
       /\ R.pc = "done" => R.resp.status = 500

\* ----------------------------------------------------------------------- C7
\* C7: in local-key mode no /score or /discover request, at any time after
\* startup (also after the 24 h TTL of the kid 0 entry), causes an
\* attestation call or a KMS request.
C7_LocalModeSkipsKms ==
    local_key => R.nAttest = 0 /\ R.nKms = 0

\* ----------------------------------------------------------------------- C8
\* C8: GET /discover in remote-KMS mode always returns 404 with no cache
\* access, attestation call or KMS request; in local-key mode it returns 200
\* whose body is the hex encoding of the list form of the KeyConfig held
\* under kid 0.
C8_Discover ==
    R.route = "discover" /\ R.pc = "done" =>
        IF ~local_key
        THEN R.resp.status = 404 /\ NoOutboundCalls(R)
        ELSE /\ R.resp.status = 200
             /\ 0 \in DOMAIN cache =>
                    R.resp.body = HexEncode(EncodeList(<<cache[0].config>>))

\* ----------------------------------------------------------------------- C9
\* C9: for every outer header map and every allowlist (also with duplicate
\* names, also with several values of a name), the headers added to the
\* inner request contain no name outside the allowlist, and every
\* allowlisted name present in the outer request is added exactly once.
AllowedNames(keys) ==
    {HeaderNameTryFrom(keys[i])[1] :
        i \in {j \in DOMAIN keys : HeaderNameTryFrom(keys[j]) # None}}

\* The headers of the backend request after the inner request's own fields.
AddedHeaders(sent) == SubSeq(sent.headers, Len(sent.inner) + 1, Len(sent.headers))

C9_InjectionClosedUnderAllowlist ==
    R.sent # None =>
        LET added == AddedHeaders(R.sent[1])
            allowed == AllowedNames(inject_request_headers)
        IN  /\ HeaderNames(added) \subseteq allowed
            /\ \A n \in allowed :
                    HeaderCount(added, n) = IF n \in DOMAIN R.hdrs THEN 1 ELSE 0
            /\ \A i \in DOMAIN added :
                    added[i][2] \in SeqToSet(R.hdrs[added[i][1]])

\* x-a is allowed twice (x-a, X-A), has two outer values, and is added once.
C9_Witness ==
    /\ R.sent # None
    /\ \E i, j \in DOMAIN inject_request_headers :
            inject_request_headers[i] = "x-a" /\ inject_request_headers[j] = "X-A"
    /\ "x-a" \in DOMAIN R.hdrs
    /\ Len(R.hdrs["x-a"]) = 2
    /\ HeaderCount(AddedHeaders(R.sent[1]), "x-a") = 1
    /\ Len(R.sent[1].inner) = 1

\* ---------------------------------------------------------------------- C10
\* C10 as claimed: for every backend response, the outer /score response
\* never carries the backend's content-type or content-length header,
\* carries every other backend header, and has Content-Type equal to
\* message/ohttp-chunked-res.
PairCount(hm, e) == Cardinality({i \in DOMAIN hm : hm[i] = e})

FilteredOuterHeaders(r) ==
    LET outer == r.resp.headers
        hm == Normalised(r.backend[1].headers)
    IN  /\ HeaderCount(outer, "content-length") = 0
        /\ HeaderCount(outer, "content-type") = 1
        /\ PairCount(outer, ContentTypePair) = 1
        /\ \A i \in DOMAIN hm :
                hm[i][1] \notin {"content-type", "content-length"} =>
                    PairCount(outer, hm[i]) >= PairCount(hm, hm[i])

TokenValues(hm) ==
    LET IsToken(e) == e[1] = "x-attestation-token"
        tokens == SelectSeq(hm, IsToken)
    IN  [i \in DOMAIN tokens |-> tokens[i][2]]

\* Task t hands over the head of a 200 response in this step.
BuildsResponse(t) == req[t].pc = "backend" /\ req'[t].pc = "stream"

\* C11 as claimed: when a /score request carries x-attestation-token and
\* succeeds, its response carries x-attestation-token equal to the token the
\* cache holds for the selected kid at the time the response is built, in
\* every interleaving with other requests for the same kid; when the request
\* does not carry the header, the response does not carry it.
C11_TokenOfCacheWhenBuilt ==
    [][\A t \in Tasks :
        BuildsResponse(t) =>
            IF req[t].return_token
            THEN /\ req[t].kid \in DOMAIN cache
                 /\ TokenValues(req'[t].resp.headers) = <<cache[req[t].kid].token>>
            ELSE TokenValues(req'[t].resp.headers) = <<>>]_vars

\* C11 as amended: the token a successful /score response carries for a
\* request with x-attestation-token is the token import_config returned to
\* that request with its KeyConfig (the cached token at the request's cache
\* read, or the token of the request's own fetch, then also written to the
\* cache), whatever the cache holds when the response is built; a request
\* without the header gets no token added; a header of that name sent by the
\* backend is forwarded after it in both cases.
C11_TokenOfImportedConfig ==
    [][\A t \in Tasks :
        /\ BuildsResponse(t) =>
                TokenValues(req'[t].resp.headers) =
                    (IF req[t].return_token THEN <<req[t].ohttp[1].token>> ELSE <<>>)
                        \o TokenValues(Normalised(req'[t].backend[1].headers))
        /\ req[t].pc = "imported" /\ req'[t].pc = "reply" => req'[t].ohttp = req[t].imp
        /\ req[t].pc = "import_get" /\ req'[t].pc = "imported" =>
                req'[t].imp = Some(cache[req[t].kid])
        /\ req[t].pc = "kms" /\ req'[t].pc = "imported" /\ req'[t].imp # None =>
                /\ req'[t].imp[1].token = req[t].token
                /\ cache'[req[t].kid] = req'[t].imp[1]]_vars

\* Two requests raced on the cold kid: one answers with the token of its own
\* fetch while the cache holds the token of the other's later insert.
C11_Witness ==
    \E t \in Tasks :
        /\ req[t].pc = "stream"
        /\ req[t].return_token
        /\ req[t].nInsert = 1
        /\ req[t].kid \in DOMAIN cache
        /\ cache[req[t].kid].token # req[t].ohttp[1].token
        /\ TokenValues(req[t].resp.headers) = <<req[t].ohttp[1].token>>
\* ---------------------------------------------------------------------- C12
\* The encapsulation calls made for a response: its body after the nonce.
Calls(r) == Tail(r.resp.body)
CallChunks(r) == [i \in DOMAIN Calls(r) |-> Calls(r)[i].chunk]

\* The chunks read and not yet encapsulated: the one in hand, the one just read.
Pending(r) ==
    r.hand \o (IF r.polled # None /\ r.polled[1].kind = "chunk"
               THEN <<r.polled[1].chunk>> ELSE <<>>)

\* Exactly one call, the final one, carries last_flag = true.
OnlyFinalCallIsLast(calls) ==
    \E i \in DOMAIN calls :
        /\ i = Len(calls)
        /\ \A j \in DOMAIN calls : calls[j].last <=> j = i

\* The calls are made with the session's counter going up from 0.
CallsInOrder(calls) == \A j \in DOMAIN calls : calls[j].i = j - 1

\* C12 as claimed: for every successful /score request, the sequence of
\* chunks encapsulated and emitted to the client is exactly the sequence of
\* chunks read from the backend, in the same order with none dropped,
\* duplicated or reordered, and exactly one encapsulation call, the final
\* one, carries last_flag = true.
C12_EverySuccessfulStream ==
    R.route = "score" /\ R.pc = "done" /\ R.resp.status = 200 =>
        /\ CallChunks(R) = R.read
        /\ CallsInOrder(Calls(R))
        /\ OnlyFinalCallIsLast(Calls(R))

\* C12 as amended: for every successful /score request whose backend
\* response yields at least one chunk, the sequence of chunks encapsulated
\* and emitted is exactly the sequence of chunks read from the backend, in
\* order, and exactly one encapsulation call, the final one, carries
\* last_flag = true; while the stream runs, the chunks emitted so far
\* followed by the chunk in hand and the chunk just read are the chunks read
\* so far, and no call has carried last_flag = true yet.
C12_StreamOfAtLeastOneChunk ==
    /\ R.route = "score" /\ R.pc = "done" /\ R.resp.status = 200 /\ R.read # <<>> =>
            /\ CallChunks(R) = R.read
            /\ CallsInOrder(Calls(R))
            /\ OnlyFinalCallIsLast(Calls(R))
    /\ R.pc = "stream" =>
            /\ CallChunks(R) \o Pending(R) = R.read
            /\ CallsInOrder(Calls(R))
            /\ \A j \in DOMAIN Calls(R) : ~Calls(R)[j].last

\* A response of MaxChunks chunks, two of them different, sent in full.
C12_Witness ==
    /\ R.pc = "done" /\ R.resp.status = 200
    /\ Len(R.read) = MaxChunks
    /\ R.read[1] # R.read[2]
    /\ CallChunks(R) = R.read
    /\ R.polled = Some(ChunkEnd)
\* ---------------------------------------------------------------------- C13
\* The number of chunks encapsulated for the request so far.
NumCalls(r) == IF r.resp.status = 200 THEN Len(Calls(r)) ELSE 0

\* The moves of a session from s to s2, n chunks being encapsulated in the
\* step: along Fresh -> Decapsulated -> Streaming(i) -> Closed, the counter
\* growing by one per encapsulated chunk.
SessionMove(s, s2, n) ==
    /\ s2.i = s.i + n
    /\ \/ s2 = s /\ n = 0
       \/ s.st = "Streaming" /\ s2.st = "Streaming" /\ n = 1
       \/ s.st = "Fresh" /\ s2.st = "Decapsulated" /\ n = 0
       \/ s.st = "Decapsulated" /\ s2.st = "Streaming" /\ n = 0
       \/ s.st = "Streaming" /\ s2.st = "Closed" /\ n \in {0, 1}

\* The backend's body has ended or broken, and the stream has not taken it up.
StreamEnding(r) ==
    r.pc = "stream" /\ r.polled # None /\ r.polled[1].kind \in {"end", "err"}

\* C13 as claimed: every session moves only along Fresh -> Decapsulated ->
\* Streaming(i) -> Closed with i growing by one per encapsulated chunk;
\* Closed is terminal (no chunk is encapsulated after it), and every session
\* that reached Decapsulated with a 200 response eventually reaches Closed
\* once the backend stream ends or errors.  (The step to the task's next
\* request, which has a session of its own, is not a move.)
C13_SessionMovesAlongChain ==
    /\ [][R'.pc # "idle" =>
            SessionMove(R.session, R'.session, NumCalls(R') - NumCalls(R))]_vars
    /\ (StreamEnding(R) ~> R.session.st = "Closed")

\* C13 as amended: every session moves only along Fresh -> Decapsulated ->
\* Streaming(i) -> Closed with i growing by one per encapsulated chunk,
\* except that a session whose backend stream ends or errors before its
\* first chunk goes from Decapsulated to Closed without streaming; Closed is
\* terminal, and every session that reached Decapsulated with a 200
\* response reaches Closed once the backend stream ends or errors.
C13_SessionLifeCycle ==
    /\ [][R'.pc # "idle" =>
            \/ SessionMove(R.session, R'.session, NumCalls(R') - NumCalls(R))
            \/ /\ R.session = Session("Decapsulated", 0)
               /\ R'.session = Session("Closed", 0)
               /\ StreamEnding(R) /\ R.read = <<>>
               /\ NumCalls(R') = 0]_vars
    /\ [](R.pc = "done" /\ R.resp.status = 200 => R.session.st = "Closed")
    /\ [](R.session.st = "Streaming" => R.pc = "stream" /\ R.hand # None)
    /\ (StreamEnding(R) ~> R.session.st = "Closed")

\* A session closed after MaxChunks encapsulated chunks.
C13_Witness ==
    /\ R.pc = "done" /\ R.resp.status = 200
    /\ R.session = Session("Closed", MaxChunks)
    /\ NumCalls(R) = MaxChunks
\* ---------------------------------------------------------------------- C14
\* C14: in every reachable state, every cache entry is stored under the key
\* id its KeyConfig carries: each cache key is in 0..255 and equals the key
\* id of the KeyConfig stored under it (also when the fetch was for the
\* latest key, kid < 0, and when CBOR field 4 is absent from the key).
C14_CacheKeyIsConfigKeyId ==
    \A k \in DOMAIN cache :
        /\ k \in 0..U8Max
        /\ cache[k].config.key_id = k

\* What the code keeps instead: an entry is stored under the kid that
\* import_config was called with.
CacheKeyIsRequestedKid ==
    [][\A k \in DOMAIN cache' :
            k \notin DOMAIN cache \/ cache'[k] # cache[k] =>
                R.pc = "kms" /\ k = R.kid /\ R'.imp = Some(cache'[k])]_vars

\* ---------------------------------------------------------------------- C15
\* C15: a request for the latest key (kid < 0, an empty /score body in
\* remote-KMS mode) is never served from the cache: every import_config(-1)
\* call obtains a fresh attestation token and POSTs to the KMS URL without
\* a kid query parameter, however many earlier latest-key requests
\* succeeded.
C15_LatestKeyNeverFromCache ==
    /\ R.kid < 0 /\ R.pc \in {"attest", "kms", "imported"} => R.nGet = 1
    /\ R.kid < 0 /\ R.pc \in {"kms", "imported"} => R.nAttest = 1
    /\ R.kid < 0 /\ R.url # None => R.url = Some(<<"kms_url">>)
    /\ R.kid < 0 /\ R.pc = "imported" /\ R.imp # None =>
            /\ R.nKms >= 1
            /\ R.imp[1].token \in Tokens

\* What the code keeps of C15: a latest-key request that does go to the KMS
\* posts to the bare URL with a token of its own.
LatestKeyUrl ==
    R.kid < 0 /\ R.url # None => R.url = Some(<<"kms_url">>) /\ R.nAttest = 1

\* ---------------------------------------------------------------------- C16
\* C16: a decapsulated inner request whose path bytes are not valid UTF-8 is
\* rejected as a bad inner request: the /score response is HTTP 400 and no
\* request is sent to the backend.
C16_NonUtf8PathIs400 ==
    R.sent # None /\ R.sent[1].path_bytes # "absent"
                  /\ ~ToStrOk(R.sent[1].path_bytes) =>
        /\ R.nBackend = 0
        /\ R.pc \in {"stream", "done"} => R.resp.status = 400
\* ---------------------------------------------------------------------- C17
\* C17: no request is ever retried: each /score request sends at most one
\* request to the backend, and sends it only after key resolution,
\* decapsulation and bHTTP decoding have all succeeded in that order; the
\* only repeated outbound call in the system is the KMS POST inside
\* import_config.
C17_NoRetry ==
    /\ R.nBackend <= 1
    /\ R.nGet <= 1
    /\ R.nAttest <= 1
    /\ R.nInsert <= 1
    /\ R.nBackend = 1 <=> R.sent # None
    /\ R.backend # None => R.sent # None
    /\ R.sent # None =>
            /\ R.session.st # "Fresh"
            /\ MethodFromBytes(R.sent[1].method) # None
            /\ ~FieldsPanic(R.sent[1].inner)
    /\ R.session.st # "Fresh" =>
            /\ R.ohttp # None
            /\ CanDecapsulate(R.ohttp[1].config, R.body)
    /\ R.ohttp # None => R.ohttp = R.imp /\ R.nGet = 1
    /\ R.resp.status \in {500, 422} => R.nBackend = 0
    /\ R.pc = "done" /\ R.resp.status = 400 /\ R.backend = None => R.nBackend = 0

\* A /score answered 400 on a backend error after one backend request, its
\* key fetched by a KMS POST that was repeated.
C17_Witness ==
    /\ R.pc = "done" /\ R.resp.status = 400
    /\ R.backend # None /\ R.backend[1].status = 500
    /\ R.nBackend = 1
    /\ R.nKms >= 2

\* ---------------------------------------------------------------------- C18
\* C18: once a /score response has started with status 200, a backend read
\* error or truncated stream does not change the status: the response
\* stream ends by encapsulating the chunk in hand with last_flag = true,
\* the session is closed, and no further backend read or retry occurs.
ReadFailed(r) == r.polled = Some(ChunkErr)

C18_ReadErrorEndsStream ==
    /\ [](ReadFailed(R) =>
            /\ R.resp.status = 200
            /\ R.nRead = Len(R.read) + 1
            /\ R.nBackend = 1)
    /\ [](ReadFailed(R) /\ R.pc = "done" =>
            /\ R.session.st = "Closed"
            /\ R.hand = None
            /\ R.read # <<>> =>
                    Calls(R)[Len(Calls(R))] =
                        EncapsulateChunk(Len(R.read) - 1, R.read[Len(R.read)], TRUE))
    /\ [][ReadFailed(R) /\ R.pc = "stream" =>
            /\ R'.pc = "done"
            /\ R'.resp.status = 200
            /\ R'.resp.headers = R.resp.headers
            /\ R'.nRead = R.nRead
            /\ R'.nBackend = R.nBackend
            /\ R.hand # None =>
                    R'.resp.body = Append(R.resp.body,
                                          EncapsulateChunk(R.session.i, R.hand[1], TRUE))]_vars
    /\ [][ReadFailed(R) /\ R.pc = "done" => R'.pc = "idle"]_vars
    /\ [][R.pc = "stream" => R'.resp.status = 200 /\ R'.pc \in {"stream", "done"}]_vars

\* The second read of a body failed: the first chunk went out as the last.
C18_Witness ==
    /\ R.pc = "done" /\ R.resp.status = 200
    /\ ReadFailed(R)
    /\ Len(R.read) = 1
    /\ R.nRead = 2
    /\ Calls(R) = <<EncapsulateChunk(0, R.read[1], TRUE)>>

\* ---------------------------------------------------------------------- C20
\* C20: the cache changes only on a successful fetch: every import_config
\* call that fails (attestation failure, KMS transport error, retries
\* exhausted, non-200/202 status, key id mismatch, malformed or missing key
\* field) and every /score request that fails after key resolution leaves
\* the set of cache entries and their values unchanged, apart from TTL
\* expiry.
SuccessfulFetch ==
    /\ R.pc = "kms" /\ R'.pc = "imported"
    /\ R'.imp # None
    /\ R'.kms_status = 200
    /\ cache' = CacheInsert(cache, R.kid, R'.imp[1])

TtlExpiry == R' = R /\ \E k \in DOMAIN cache : cache' = CacheEvict(cache, k)

C20_CacheChangesOnlyOnFetch ==
    /\ [][cache' # cache => SuccessfulFetch \/ TtlExpiry]_vars
    /\ [][R.pc \in {"import_get", "attest", "kms"} /\ R'.pc = "imported" /\ R'.imp = None
            => cache' = cache /\ R'.nInsert = 0]_vars
    /\ [][R.pc \in {"imported", "reply", "backend", "stream"} /\ R' # R
            => cache' = cache]_vars
    /\ [][R.pc # "panicked" /\ R'.pc = "panicked" => cache' = cache]_vars

\* A fetch failed on a key id mismatch next to an entry fetched earlier,
\* which is still there.
C20_Witness ==
    /\ ~local_key
    /\ R.pc = "imported" /\ R.imp = None
    /\ R.err \in KidMismatchErrors
    /\ R.nInsert = 0
    /\ \E k \in DOMAIN cache : k # R.kid /\ cache[k].token \in Tokens
\* ---------------------------------------------------------------------- C19
\* A stampede on a cold kid: every task of the runtime calls import_config
\* for the same kid (MaxKid) on an empty cache of a remote-KMS server, the
\* calls interleaved at their awaits.  The KMS answers with the key of that
\* kid (also one whose CBOR map has no field 4), a 202 or a refusal.  The
\* runtime keeps running every task whose await has completed.
StampedeKid == MaxKid

StampedeKmsResponses ==
    {GoodAnswer(StampedeKid), Answer202,
     KmsResponse(TRUE, 403, FALSE, 0, EmptyKeyString),
     KmsResponse(TRUE, 200, TRUE, StampedeKid,
                 KeyString(TRUE, "map", (-4 :> CborBytes(ScalarKms)) @@ (-1 :> CborInt(2))))}

StampedeBodies == {<<StampedeKid>>}
StampedeHeaderMaps == {NoHeaders}

StampedeStep(t) ==
    \/ ImportGet(t)
    \/ AttestIn(t, AttestResults)
    \/ KmsRoundIn(t, StampedeKmsResponses)

InitStampede ==
    /\ local_key = FALSE
    /\ inject_request_headers = <<>>
    /\ cache = <<>>
    /\ req = [t \in Tasks |-> IdleReq]

NextStampede ==
    \E t \in Tasks :
        \/ ScoreStartIn(t, StampedeBodies, StampedeHeaderMaps)
        \/ StampedeStep(t)

SpecStampede ==
    InitStampede /\ [][NextStampede]_vars /\ \A t \in Tasks : WF_vars(StampedeStep(t))

InImport(t) == req[t].pc \in {"import_get", "attest", "kms"}
Returned(t) == req[t].pc \in {"imported", "panicked"}
Inserted(t) == req[t].pc = "imported" /\ req[t].nInsert = 1

\* Later inserts win: an insert leaves the inserting call's pair under the
\* kid, and nothing but an insert changes the cache.
LaterInsertWins ==
    /\ [][\A t \in Tasks :
            req'[t].nInsert > req[t].nInsert =>
                cache' = CacheInsert(cache, StampedeKid, req'[t].imp[1])]_vars
    /\ [][cache' # cache => \E t \in Tasks : req'[t].nInsert > req[t].nInsert]_vars
    /\ []((\A t \in Tasks : Returned(t)) /\ (\E t \in Tasks : Inserted(t)) =>
            /\ DOMAIN cache = {StampedeKid}
            /\ \E t \in Tasks : Inserted(t) /\ cache[StampedeKid] = req[t].imp[1])

\* No call blocks forever.
EveryCallReturns == \A t \in Tasks : InImport(t) ~> Returned(t)

\* C19: for every interleaving of concurrent import_config calls for the
\* same kid on a cold cache, no call blocks forever, each call may perform
\* its own attestation and KMS fetch, every successful call returns a
\* KeyConfig for the requested kid, and after all calls finish the cache
\* holds exactly one entry under that kid, which is the pair written by the
\* insert that happened last.
C19_ColdStampede ==
    /\ [](\A t \in Tasks :
            req[t].pc = "imported" /\ req[t].imp # None =>
                req[t].imp[1].config.key_id = req[t].kid)
    /\ LaterInsertWins
    /\ EveryCallReturns

\* What the code keeps of C19: the calls do not block one another, and the
\* later insert wins.
StampedeTolerated == LaterInsertWins /\ EveryCallReturns

\* Two calls both fetched for the cold kid, with different tokens.
StampedeBothFetched ==
    \E t, u \in Tasks :
        /\ Inserted(t) /\ Inserted(u)
        /\ req[t].nAttest = 1 /\ req[u].nAttest = 1
        /\ req[t].imp[1].token # req[u].imp[1].token
====
